---------------------------- MODULE Spec2Model ----------------------------
(***************************************************************************)
(* Model of panoptes_aggregation/reducers/optics_text_utils.py: the text   *)
(* normaliser strip_tags, the pairwise dissimilarity metric, the density   *)
(* threshold get_min_samples, the per-cluster user de-duplication          *)
(* remove_user_duplication and the singleton builder cluster_of_one.       *)
(*                                                                         *)
(* Python strings are sequences of one-character strings.  Python lists    *)
(* and numpy arrays are sequences; a Python index i (0-based) reads the    *)
(* TLA+ element i + 1.  A Python dict is a function whose DOMAIN is the    *)
(* set of keys it holds.                                                   *)
(***************************************************************************)
EXTENDS Integers, Sequences, FiniteSets, TLC

VARIABLES
    s,                \* argument of strip_tags
    N,                \* argument of get_min_samples
    data,             \* the list of line records (data_in / data)
    labels_,          \* argument of remove_user_duplication
    core_distances_,  \* argument of remove_user_duplication
    users,            \* argument of remove_user_duplication
    clean_labels,     \* the labels remove_user_duplication returned
    call,             \* the call that has been made: [op |-> ..., arguments]
    ret               \* what that call did: returned a value or raised

vars == <<s, N, data, labels_, core_distances_, users, clean_labels, call, ret>>

----------------------------------------------------------------------------
(* Bounds of the model *)

MaxLen == 5       \* longest string given to strip_tags
MaxN == 60        \* largest user count given to get_min_samples
MaxLines == 2     \* most line records in data
MaxRows == 2      \* most rows of X given to cluster_of_one
MaxObs == 3       \* most observations given to remove_user_duplication

----------------------------------------------------------------------------
(* Generic helpers: Python values *)

NoCall == [op |-> "none"]
NoRet == [status |-> "none"]
Returned(v) == [status |-> "returned", value |-> v]
Raised(e, k) == [status |-> "raised", error |-> e, key |-> k]

\* All sequences over S of length lo..hi
SeqsOf(S, lo, hi) == UNION {[1..n -> S] : n \in lo..hi}

----------------------------------------------------------------------------
(* strip_tags *)

\* the characters strings are made of: brackets, a letter, and the
\* whitespace characters str.split() splits on (space, tab, line feed)
Chars == {"[", "]", "a", " ", "\t", "\n"}
Whitespace == {" ", "\t", "\n"}

\* End of the match of '[\[].*?[\]]' starting at position i of str, 0 if
\* there is none.  '.' matches every character but the line feed and '*?'
\* is lazy, so the match ends at the first ']' after i, and only if no line
\* feed stands between i and that ']'.
MatchEnd(str, i) ==
    IF str[i] # "["
    THEN 0
    ELSE LET closers == {j \in (i + 1)..Len(str) : str[j] = "]"}
         IN  IF closers = {}
             THEN 0
             ELSE LET j == CHOOSE c \in closers : \A d \in closers : c <= d
                  IN  IF \A k \in (i + 1)..(j - 1) : str[k] # "\n"
                      THEN j
                      ELSE 0

\* re.sub(pattern, '', str) from position i on: leftmost matches, not
\* overlapping, each replaced by ''
RECURSIVE ReSubFrom(_, _)
ReSubFrom(str, i) ==
    IF i > Len(str)
    THEN <<>>
    ELSE IF MatchEnd(str, i) # 0
         THEN ReSubFrom(str, MatchEnd(str, i) + 1)
         ELSE <<str[i]>> \o ReSubFrom(str, i + 1)

\* str.split(): the maximal runs of non-whitespace characters, in order
RECURSIVE SplitFrom(_, _, _)
SplitFrom(str, i, word) ==
    IF i > Len(str)
    THEN IF word = <<>> THEN <<>> ELSE <<word>>
    ELSE IF str[i] \in Whitespace
         THEN IF word = <<>>
              THEN SplitFrom(str, i + 1, <<>>)
              ELSE <<word>> \o SplitFrom(str, i + 1, <<>>)
         ELSE SplitFrom(str, i + 1, Append(word, str[i]))

Split(str) == SplitFrom(str, 1, <<>>)

\* sep.join(words)
RECURSIVE Join(_, _)
Join(sep, words) ==
    IF words = <<>>
    THEN <<>>
    ELSE IF Len(words) = 1
         THEN words[1]
         ELSE words[1] \o sep \o Join(sep, Tail(words))

strip_tags(str) ==
    LET no_brackets == ReSubFrom(str, 1)
        unify_space == Join(<<" ">>, Split(no_brackets))
    IN  unify_space

InitText ==
    /\ s \in SeqsOf(Chars, 0, MaxLen)
    /\ N = 0
    /\ data = <<>>
    /\ labels_ = <<>>
    /\ core_distances_ = <<>>
    /\ users = <<>>
    /\ clean_labels = <<>>
    /\ call = NoCall
    /\ ret = NoRet

StripTags ==
    /\ call.op = "none"
    /\ call' = [op |-> "strip_tags"]
    /\ ret' = Returned(strip_tags(s))
    /\ UNCHANGED <<s, N, data, labels_, core_distances_, users, clean_labels>>

NextText == StripTags

SpecText == InitText /\ [][NextText]_vars

\* What the sentence about strip_tags describes, computed another way:
\* every substring from a '[' to the first ']' after it is deleted, line
\* feeds inside it or not ...
RECURSIVE DeleteBracketed(_, _)
DeleteBracketed(str, i) ==
    IF i > Len(str)
    THEN <<>>
    ELSE LET closers == {j \in (i + 1)..Len(str) : str[j] = "]"}
         IN  IF str[i] = "[" /\ closers # {}
             THEN DeleteBracketed(str,
                      (CHOOSE c \in closers : \A d \in closers : c <= d) + 1)
             ELSE <<str[i]>> \o DeleteBracketed(str, i + 1)

\* ... then every run of whitespace becomes one space and both ends are
\* trimmed: a whitespace character survives, as a space, only if it follows
\* a non-whitespace character and some non-whitespace character comes later
RECURSIVE CollapseFrom(_, _)
CollapseFrom(str, i) ==
    IF i > Len(str)
    THEN <<>>
    ELSE IF str[i] \notin Whitespace
         THEN <<str[i]>> \o CollapseFrom(str, i + 1)
         ELSE IF /\ i > 1
                 /\ str[i - 1] \notin Whitespace
                 /\ \E k \in (i + 1)..Len(str) : str[k] \notin Whitespace
              THEN <<" ">> \o CollapseFrom(str, i + 1)
              ELSE CollapseFrom(str, i + 1)

TagsDeletedAndSpaceUnified(str) == CollapseFrom(DeleteBracketed(str, 1), 1)

\* C7 (as claimed): for every input string, line breaks included,
\* strip_tags returns the string with every '[' ... first ']' substring
\* deleted, whitespace runs replaced by one space and both ends trimmed.
C7_StripTagsDeletesEveryTag ==
    call.op = "strip_tags" => ret = Returned(TagsDeletedAndSpaceUnified(s))

\* a '[' and the first ']' after it with a line feed between them
HasLineFeedInTag(str) ==
    \E i \in 1..Len(str) :
        /\ str[i] = "["
        /\ \E j \in (i + 1)..Len(str) :
              /\ str[j] = "]"
              /\ \A k \in (i + 1)..(j - 1) : str[k] # "]"
              /\ \E k \in (i + 1)..(j - 1) : str[k] = "\n"

\* C7 (where the code agrees with the sentence): strings in which no tag
\* holds a line feed
StripTagsOnOneLineTags ==
    (call.op = "strip_tags" /\ ~HasLineFeedInTag(s))
        => ret = Returned(TagsDeletedAndSpaceUnified(s))

----------------------------------------------------------------------------
(* get_min_samples *)

\* int(x) of the float x = num / den: truncation toward zero
IntTrunc(num, den) ==
    IF num >= 0 THEN num \div den ELSE -((-num) \div den)

\* get_min_samples rounding 0.25 * n to the nearest integer
get_min_samples_rounded(n) ==
    IF n <= 6 THEN 2
    ELSE IF n <= 10 THEN 3
    ELSE IF n <= 15 THEN 4
    ELSE IF n <= 20 THEN 5
    ELSE IntTrunc(n + 2, 4)

\* 0.25 * n is n / 4, exact in binary floating point for every n below 2^53
get_min_samples(n) ==
    IF n <= 6 THEN 2
    ELSE IF n <= 10 THEN 3
    ELSE IF n <= 15 THEN 4
    ELSE IF n <= 20 THEN 5
    ELSE IntTrunc(n, 4)

InitMinSamples ==
    /\ N \in 1..MaxN
    /\ s = <<>>
    /\ data = <<>>
    /\ labels_ = <<>>
    /\ core_distances_ = <<>>
    /\ users = <<>>
    /\ clean_labels = <<>>
    /\ call = NoCall
    /\ ret = NoRet

GetMinSamples ==
    /\ call.op = "none"
    /\ call' = [op |-> "get_min_samples"]
    /\ ret' = Returned(get_min_samples(N))
    /\ UNCHANGED <<s, N, data, labels_, core_distances_, users, clean_labels>>

NextMinSamples == GetMinSamples

SpecMinSamples == InitMinSamples /\ [][NextMinSamples]_vars

\* the policy table, stated on its own: floor(n / 4) is the k with
\* 4k <= n < 4(k + 1)
PolicyTable(n) ==
    CASE n <= 6 -> 2
      [] n \in 7..10 -> 3
      [] n \in 11..15 -> 4
      [] n \in 16..20 -> 5
      [] n >= 21 -> CHOOSE k \in 0..n : 4 * k <= n /\ n < 4 * (k + 1)

\* C6: for every N >= 1, get_min_samples(N) is the policy table's value
\* (2, 3, 4, 5 by range, floor(N / 4) from 21 on, never rounded up); in
\* particular get_min_samples(21) = 5 and get_min_samples(24) = 6.
C6_MinSamplesPolicy ==
    call.op = "get_min_samples" =>
        /\ ret = Returned(PolicyTable(N))
        /\ N = 21 => ret.value = 5
        /\ N = 24 => ret.value = 6

\* a call with N >= 21 where floor and rounding differ (N = 23, 27, ...)
C6_Witness ==
    /\ call.op = "get_min_samples"
    /\ N >= 21
    /\ N % 4 = 3
    /\ ret.status = "returned"

----------------------------------------------------------------------------
(* Line records, metric and cluster_of_one *)

Keys == {"x", "y", "text"}

\* raw transcriptions: plain, with a tag, with doubled whitespace, joined
Texts == {
    <<"a", " ", "b">>,
    <<"a", " ", "[", "x", "]", " ", "b">>,
    <<"a", "\t", " ", "b">>,
    <<"a", "b">>}

\* endpoints [start, end] in x and in y
Geometries == {
    [x |-> <<0, 1>>, y |-> <<0, 1>>],
    [x |-> <<1, 0>>, y |-> <<0, 1>>],
    [x |-> <<0, 0>>, y |-> <<0, 0>>]}

\* {'x': [start_x, end_x], 'y': [start_y, end_y], 'text': ['text for line']}
WellFormed == {[x |-> g.x, y |-> g.y, text |-> <<t>>] : g \in Geometries, t \in Texts}

\* the dict d without key k
Without(d, k) == [key \in (DOMAIN d) \ {k} |-> d[key]]

\* records that miss one of the keys
Malformed ==
    {Without([x |-> <<0, 1>>, y |-> <<0, 1>>, text |-> <<(<<"a", "b">>)>>], k) : k \in Keys}

LineRecords == WellFormed \cup Malformed

IsMalformed(d) == ~(Keys \subseteq DOMAIN d)

UserIdx == {0, 1}

\* rows [index mapping to data, index mapping to user] over a data list
RowsOver(d) == {<<i, u>> : i \in 0..(Len(d) - 1), u \in UserIdx}

\* A distance: np.inf, or the sum of the square roots of `roots` plus the
\* integer `plus` (the square roots are kept as their radicands, so the
\* value is exact)
Inf == [inf |-> TRUE, roots |-> <<>>, plus |-> 0]
Finite(roots, plus) == [inf |-> FALSE, roots |-> roots, plus |-> plus]
IsZero(d) == ~d.inf /\ d.plus = 0 /\ \A i \in 1..Len(d.roots) : d.roots[i] = 0

Min2(p, q) == IF p <= q THEN p ELSE q

\* Levenshtein.distance(u, v): fewest single-character insertions,
\* deletions and substitutions turning u into v
RECURSIVE Levenshtein(_, _)
Levenshtein(u, v) ==
    IF u = <<>> THEN Len(v)
    ELSE IF v = <<>> THEN Len(u)
    ELSE IF Head(u) = Head(v) THEN Levenshtein(Tail(u), Tail(v))
    ELSE 1 + Min2(Levenshtein(Tail(u), Tail(v)),
                  Min2(Levenshtein(Tail(u), v), Levenshtein(u, Tail(v))))

\* the first key among the reads, in the order the code makes them, that
\* its dict does not hold: <<>> if every read succeeds
RECURSIVE FirstMissing(_)
FirstMissing(reads) ==
    IF reads = <<>>
    THEN <<>>
    ELSE IF reads[1][2] \notin DOMAIN reads[1][1]
         THEN <<reads[1][2]>>
         ELSE FirstMissing(Tail(reads))

\* lines 68-76 with the text compared raw, strip_tags left out
line_distance_raw_text(a, b, data_in) ==
    LET data_a == data_in[a[1] + 1]
        data_b == data_in[b[1] + 1]
        missing == FirstMissing(<<
            <<data_a, "x">>, <<data_b, "x">>,
            <<data_a, "y">>, <<data_b, "y">>,
            <<data_a, "text">>, <<data_b, "text">> >>)
    IN  IF missing # <<>>
        THEN Raised("KeyError", missing[1])
        ELSE LET dx == [i \in 1..2 |-> (data_a.x[i] - data_b.x[i]) * (data_a.x[i] - data_b.x[i])]
                 dy == [i \in 1..2 |-> (data_a.y[i] - data_b.y[i]) * (data_a.y[i] - data_b.y[i])]
                 dt == Levenshtein(data_a.text[1], data_b.text[1])
             IN  Returned(Finite([i \in 1..2 |-> dx[i] + dy[i]], dt))

\* the general case of metric: two data points of two users.  The reads
\* raise KeyError at the first key a record does not hold; the result is
\* sqrt(dx + dy).sum() + dt
line_distance(a, b, data_in) ==
    LET data_a == data_in[a[1] + 1]
        data_b == data_in[b[1] + 1]
        missing == FirstMissing(<<
            <<data_a, "x">>, <<data_b, "x">>,
            <<data_a, "y">>, <<data_b, "y">>,
            <<data_a, "text">>, <<data_b, "text">> >>)
    IN  IF missing # <<>>
        THEN Raised("KeyError", missing[1])
        ELSE LET dx == [i \in 1..2 |-> (data_a.x[i] - data_b.x[i]) * (data_a.x[i] - data_b.x[i])]
                 dy == [i \in 1..2 |-> (data_a.y[i] - data_b.y[i]) * (data_a.y[i] - data_b.y[i])]
                 dt == Levenshtein(strip_tags(data_a.text[1]),
                                   strip_tags(data_b.text[1]))
             IN  Returned(Finite([i \in 1..2 |-> dx[i] + dy[i]], dt))

\* metric with the same-user test made before the same-data-point test
metric_user_first(a, b, data_in) ==
    IF a[2] = b[2]
    THEN Returned(Inf)
    ELSE IF a[1] = b[1]
    THEN Returned(Finite(<<>>, 0))
    ELSE line_distance(a, b, data_in)

\* a and b are rows [data index, user index]: Python's a[0] is a[1] here
metric(a, b, data_in) ==
    IF a[1] = b[1]
    THEN Returned(Finite(<<>>, 0))
    ELSE IF a[2] = b[2]
    THEN Returned(Inf)
    ELSE line_distance(a, b, data_in)

\* np.rad2deg(np.arctan2(dy, dx)) for dy, dx in {-1, 0, 1}
Arctan2Deg(dy, dx) ==
    CASE dy = 0 /\ dx >= 0 -> 0
      [] dy = 0 /\ dx < 0 -> 180
      [] dy > 0 /\ dx > 0 -> 45
      [] dy > 0 /\ dx = 0 -> 90
      [] dy > 0 /\ dx < 0 -> 135
      [] dy < 0 /\ dx > 0 -> -45
      [] dy < 0 /\ dx = 0 -> -90
      [] dy < 0 /\ dx < 0 -> -135

\* the record built with the text normalised by strip_tags before the split
cluster_value_stripped(line) ==
    LET words == Split(strip_tags(line.text[1]))
    IN  [clusters_x |-> line.x,
         clusters_y |-> line.y,
         clusters_text |-> [w \in 1..Len(words) |-> <<words[w]>>],
         number_views |-> 1,
         line_slope |-> Arctan2Deg(line.y[Len(line.y)] - line.y[1],
                                   line.x[Len(line.x)] - line.x[1]),
         consensus_score |-> 1]

\* the record cluster_of_one builds from a line that holds x, y and text
\* (consensus_score is the float 1.0)
cluster_value(line) ==
    LET dx == line.x[Len(line.x)] - line.x[1]
        dy == line.y[Len(line.y)] - line.y[1]
        slope == Arctan2Deg(dy, dx)
        words == Split(line.text[1])
    IN  [clusters_x |-> line.x,
         clusters_y |-> line.y,
         clusters_text |-> [w \in 1..Len(words) |-> <<words[w]>>],
         number_views |-> 1,
         line_slope |-> slope,
         consensus_score |-> 1]

\* the loop of cluster_of_one from row i on, `clusters` built so far; the
\* reads of line['x'], line['y'], line['text'] raise KeyError in that order
RECURSIVE ClusterRows(_, _, _, _)
ClusterRows(X, d, i, clusters) ==
    IF i > Len(X)
    THEN Returned(clusters)
    ELSE LET line == d[X[i][1] + 1]
             missing == FirstMissing(<<
                 <<line, "x">>, <<line, "y">>, <<line, "text">> >>)
         IN  IF missing # <<>>
             THEN Raised("KeyError", missing[1])
             ELSE ClusterRows(X, d, i + 1, Append(clusters, cluster_value(line)))

\* the loop skipping the rows whose record misses a key
RECURSIVE ClusterRowsSkipping(_, _, _, _)
ClusterRowsSkipping(X, d, i, clusters) ==
    IF i > Len(X)
    THEN Returned(clusters)
    ELSE LET line == d[X[i][1] + 1]
         IN  IF ~(Keys \subseteq DOMAIN line)
             THEN ClusterRowsSkipping(X, d, i + 1, clusters)
             ELSE ClusterRowsSkipping(X, d, i + 1, Append(clusters, cluster_value(line)))

cluster_of_one_skipping(X, d) == ClusterRowsSkipping(X, d, 1, <<>>)

\* the loop missing the last row of X
cluster_of_one_drop_last(X, d) ==
    ClusterRows(SubSeq(X, 1, Len(X) - 1), d, 1, <<>>)

cluster_of_one(X, d) == ClusterRows(X, d, 1, <<>>)

InitLines ==
    /\ data \in SeqsOf(LineRecords, 1, MaxLines)
    /\ s = <<>>
    /\ N = 0
    /\ labels_ = <<>>
    /\ core_distances_ = <<>>
    /\ users = <<>>
    /\ clean_labels = <<>>
    /\ call = NoCall
    /\ ret = NoRet

Metric ==
    /\ call.op = "none"
    /\ \E a \in RowsOver(data), b \in RowsOver(data) :
          /\ call' = [op |-> "metric", a |-> a, b |-> b]
          /\ ret' = metric(a, b, data)
    /\ UNCHANGED <<s, N, data, labels_, core_distances_, users, clean_labels>>

ClusterOfOne ==
    /\ call.op = "none"
    /\ \E X \in SeqsOf(RowsOver(data), 0, MaxRows) :
          /\ call' = [op |-> "cluster_of_one", X |-> X]
          /\ ret' = cluster_of_one(X, data)
    /\ UNCHANGED <<s, N, data, labels_, core_distances_, users, clean_labels>>

NextLines == Metric \/ ClusterOfOne

SpecLines == InitLines /\ [][NextLines]_vars

\* the two records describe the same line: same endpoints, same text once
\* the tags are stripped and the whitespace unified
SameLine(p, q) ==
    /\ p.x = q.x
    /\ p.y = q.y
    /\ strip_tags(p.text[1]) = strip_tags(q.text[1])

\* C4 (as claimed): metric(a, b, records) is zero exactly when a and b have
\* the same data index.
C4_MetricZeroOnlySameIndex ==
    (call.op = "metric" /\ ret.status = "returned") =>
        (IsZero(ret.value) <=> call.a[1] = call.b[1])

\* C4 (amended): metric is 0 when the data indices are equal, non-zero
\* (infinite) for two data points of one user, and for two data points of
\* two users it is 0 exactly when the two records have the same endpoints
\* and the same tag-stripped text.
C4_MetricZeroIff ==
    (call.op = "metric" /\ ret.status = "returned") =>
        (IsZero(ret.value) <=>
            \/ call.a[1] = call.b[1]
            \/ /\ call.a[2] # call.b[2]
               /\ SameLine(data[call.a[1] + 1], data[call.b[1] + 1]))

\* two data points of two users, raw texts that differ, distance zero
C4_Witness ==
    /\ call.op = "metric"
    /\ call.a[1] # call.b[1]
    /\ call.a[2] # call.b[2]
    /\ ret.status = "returned"
    /\ IsZero(ret.value)
    /\ data[call.a[1] + 1].text # data[call.b[1] + 1].text

\* C5: two different data points of the same user are at distance
\* +infinity whatever their records hold, and the equal-data-index test
\* comes first: equal data indices give 0 also for equal users.
C5_SameUserInfinite ==
    call.op = "metric" =>
        /\ (call.a[1] # call.b[1] /\ call.a[2] = call.b[2])
              => ret = Returned(Inf)
        /\ call.a[1] = call.b[1]
              => (ret.status = "returned" /\ IsZero(ret.value))

\* two data points of one user whose records are identical
C5_Witness ==
    /\ call.op = "metric"
    /\ call.a[1] # call.b[1]
    /\ call.a[2] = call.b[2]
    /\ data[call.a[1] + 1] = data[call.b[1] + 1]
    /\ ret = Returned(Inf)

\* the words of a text, stated without split(): non-empty, free of
\* whitespace, and joined by single spaces they give the text with its
\* whitespace runs collapsed and its ends trimmed
IsWordListOf(lists, text) ==
    /\ \A w \in 1..Len(lists) :
          /\ Len(lists[w]) = 1
          /\ lists[w][1] # <<>>
          /\ \A k \in 1..Len(lists[w][1]) : lists[w][1][k] \notin Whitespace
    /\ Join(<<" ">>, [w \in 1..Len(lists) |-> lists[w][1]]) = CollapseFrom(text, 1)

\* C8: cluster_of_one(X, data) returns one record per row of X, in row
\* order, built from the line record at the row's data index: endpoints
\* unmodified, the raw text (tags kept) split on whitespace into
\* one-element lists, number_views 1 and consensus_score 1.0.
C8_ClusterOfOneRecords ==
    (/\ call.op = "cluster_of_one"
     /\ \A i \in 1..Len(call.X) : ~IsMalformed(data[call.X[i][1] + 1])) =>
        /\ ret.status = "returned"
        /\ Len(ret.value) = Len(call.X)
        /\ \A i \in 1..Len(call.X) :
              LET line == data[call.X[i][1] + 1]
                  rec == ret.value[i]
              IN  /\ rec.clusters_x = line.x /\ Len(rec.clusters_x) = 2
                  /\ rec.clusters_y = line.y /\ Len(rec.clusters_y) = 2
                  /\ IsWordListOf(rec.clusters_text, line.text[1])
                  /\ rec.number_views = 1
                  /\ rec.consensus_score = 1

\* two rows of two different lines, the second with a tag in its text,
\* which stays in the words
C8_Witness ==
    /\ call.op = "cluster_of_one"
    /\ ret.status = "returned"
    /\ Len(call.X) = 2
    /\ call.X[1][1] # call.X[2][1]
    /\ data[call.X[1][1] + 1] # data[call.X[2][1] + 1]
    /\ Len(ret.value[2].clusters_text) = 3
    /\ ret.value[2].clusters_text[2] = <<(<<"[", "x", "]">>)>>

\* C10: a line record missing x, y or text makes the operation reading it
\* raise: metric on two data points of two users when either record is
\* malformed, and cluster_of_one as a whole (no partial list) when a row's
\* record is malformed.
C10_MalformedRecordRaises ==
    /\ (/\ call.op = "metric"
        /\ call.a[1] # call.b[1]
        /\ call.a[2] # call.b[2]
        /\ \/ IsMalformed(data[call.a[1] + 1])
           \/ IsMalformed(data[call.b[1] + 1]))
          => (ret.status = "raised" /\ ret.error = "KeyError")
    /\ (/\ call.op = "cluster_of_one"
        /\ \E i \in 1..Len(call.X) : IsMalformed(data[call.X[i][1] + 1]))
          => (ret.status = "raised" /\ ret.error = "KeyError")

\* cluster_of_one over a well-formed row followed by a malformed one
C10_Witness ==
    /\ call.op = "cluster_of_one"
    /\ Len(call.X) = 2
    /\ ~IsMalformed(data[call.X[1][1] + 1])
    /\ IsMalformed(data[call.X[2][1] + 1])
    /\ ret.status = "raised"

----------------------------------------------------------------------------
(* remove_user_duplication *)

Labels == {-1, 0, 1}          \* -1 is noise
CoreDistances == {1, 5, 9}    \* in tenths: 0.1, 0.5, 0.9

\* the positions where a boolean mask is True, ascending
RECURSIVE TrueIdxFrom(_, _)
TrueIdxFrom(mask, i) ==
    IF i > Len(mask)
    THEN <<>>
    ELSE IF mask[i]
         THEN <<i>> \o TrueIdxFrom(mask, i + 1)
         ELSE TrueIdxFrom(mask, i + 1)

\* arr[mask]: a copy of the elements the mask selects
Take(arr, mask) ==
    LET idx == TrueIdxFrom(mask, 1)
    IN  [k \in 1..Len(idx) |-> arr[idx[k]]]

\* an assignment through a mask that lands in a temporary copy
PutIntoCopy(arr, mask, vals) == arr

\* arr[mask] = vals: the k-th selected position receives vals[k]
Put(arr, mask, vals) ==
    [i \in 1..Len(arr) |->
        IF mask[i]
        THEN vals[Cardinality({j \in 1..i : mask[j]})]
        ELSE arr[i]]

\* arr[mask] = v
PutScalar(arr, mask, v) == [i \in 1..Len(arr) |-> IF mask[i] THEN v ELSE arr[i]]

\* np.unique(arr): the distinct values, sorted
RECURSIVE SortedSeq(_)
SortedSeq(S) ==
    IF S = {}
    THEN <<>>
    ELSE LET m == CHOOSE x \in S : \A y \in S : x <= y
         IN  <<m>> \o SortedSeq(S \ {m})

np_unique(arr) == SortedSeq({arr[i] : i \in 1..Len(arr)})

\* the keys of collections.Counter(arr): distinct values by first occurrence
RECURSIVE FirstSeen(_, _)
FirstSeen(arr, seen) ==
    IF arr = <<>>
    THEN <<>>
    ELSE IF Head(arr) \in seen
         THEN FirstSeen(Tail(arr), seen)
         ELSE <<Head(arr)>> \o FirstSeen(Tail(arr), seen \cup {Head(arr)})

\* sorted(items, key = count, reverse = True), a stable sort
RECURSIVE SortByCountDesc(_)
SortByCountDesc(items) ==
    IF items = <<>>
    THEN <<>>
    ELSE LET k == CHOOSE i \in 1..Len(items) :
                      /\ \A j \in 1..Len(items) : items[j][2] <= items[i][2]
                      /\ \A j \in 1..(i - 1) : items[j][2] < items[i][2]
             rest == [j \in 1..(Len(items) - 1) |->
                         IF j < k THEN items[j] ELSE items[j + 1]]
         IN  <<items[k]>> \o SortByCountDesc(rest)

\* collections.Counter(arr).most_common(): <<value, count>> pairs
most_common(arr) ==
    LET keys == FirstSeen(arr, {})
    IN  SortByCountDesc([k \in 1..Len(keys) |->
            <<keys[k], Cardinality({i \in 1..Len(arr) : arr[i] = keys[k]})>>])

\* argmin returning the last position of the minimum
ArgMinLast(arr) ==
    CHOOSE i \in 1..Len(arr) :
        /\ \A j \in 1..Len(arr) : arr[i] <= arr[j]
        /\ \A j \in (i + 1)..Len(arr) : arr[i] < arr[j]

\* arr.argmin(): the first position of the minimum (1-based here)
ArgMin(arr) ==
    CHOOSE i \in 1..Len(arr) :
        /\ \A j \in 1..Len(arr) : arr[i] <= arr[j]
        /\ \A j \in 1..(i - 1) : arr[j] > arr[i]

\* a user mask that selects the whole cluster
UserMaskWholeCluster(users_cdx, user) == [i \in 1..Len(users_cdx) |-> TRUE]

\* udx = users[cdx] == user_count[0]
UserMask(users_cdx, user) == [i \in 1..Len(users_cdx) |-> users_cdx[i] = user]

\* the loop over user_counts, from its k-th entry on, within one cluster;
\* it stops at the first user counted once
RECURSIVE UserLoop(_, _, _, _, _)
UserLoop(user_counts, k, clean_labels_cdx, users_cdx, core_cdx) ==
    IF k > Len(user_counts)
    THEN clean_labels_cdx
    ELSE LET user_count == user_counts[k]
             udx == UserMask(users_cdx, user_count[1])
             clean_labels_cdx_udx == Take(clean_labels_cdx, udx)
         IN  IF user_count[2] > 1
             THEN LET min_idx == ArgMin(Take(core_cdx, udx))
                      mask == [i \in 1..Len(clean_labels_cdx_udx) |-> i # min_idx]
                      demoted == PutScalar(clean_labels_cdx_udx, mask, -1)
                  IN  UserLoop(user_counts, k + 1,
                               Put(clean_labels_cdx, udx, demoted),
                               users_cdx, core_cdx)
             ELSE clean_labels_cdx

\* the loop over the labels above -1, from the k-th on
RECURSIVE LabelLoop(_, _, _, _, _, _)
LabelLoop(unique_labels, k, clean, labels, core, usrs) ==
    IF k > Len(unique_labels)
    THEN clean
    ELSE LET l == unique_labels[k]
             cdx == [i \in 1..Len(labels) |-> labels[i] = l]
             user_counts == most_common(Take(usrs, cdx))
         IN  IF user_counts[1][2] > 1
             THEN LabelLoop(unique_labels, k + 1,
                      Put(clean, cdx,
                          UserLoop(user_counts, 1, Take(clean, cdx),
                                   Take(usrs, cdx), Take(core, cdx))),
                      labels, core, usrs)
             ELSE LabelLoop(unique_labels, k + 1, clean, labels, core, usrs)

remove_user_duplication(labels, core, usrs) ==
    LET unique_labels == np_unique(labels)
        gdx == [i \in 1..Len(unique_labels) |-> unique_labels[i] > -1]
    IN  LabelLoop(Take(unique_labels, gdx), 1, labels, labels, core, usrs)

\* The subject's line records: one per observation, told apart by their
\* endpoints
SubjectData(n) ==
    [i \in 1..n |-> [x |-> <<i - 1, i>>, y |-> <<0, 0>>,
                     text |-> <<(<<"a", " ", "b">>)>>]]

\* X: one row [data index, user index] per observation
SubjectRows(usrs) == [i \in 1..Len(usrs) |-> <<i - 1, usrs[i]>>]

\* X[clean_labels == -1]: the rows handed to cluster_of_one
NoiseRows(clean, usrs) ==
    Take(SubjectRows(usrs), [i \in 1..Len(clean) |-> clean[i] = -1])

InitReduce ==
    /\ \E n \in 0..MaxObs :
          /\ labels_ \in [1..n -> Labels]
          /\ core_distances_ \in [1..n -> CoreDistances]
          /\ users \in [1..n -> UserIdx]
          /\ data = SubjectData(n)
    /\ s = <<>>
    /\ N = 0
    /\ clean_labels = <<>>
    /\ call = NoCall
    /\ ret = NoRet

RemoveUserDuplication ==
    /\ call.op = "none"
    /\ call' = [op |-> "remove_user_duplication"]
    /\ ret' = Returned(remove_user_duplication(labels_, core_distances_, users))
    /\ clean_labels' = ret'.value
    /\ UNCHANGED <<s, N, data, labels_, core_distances_, users>>

SynthesizeNoise ==
    /\ call.op = "remove_user_duplication"
    /\ call' = [op |-> "cluster_of_one", X |-> NoiseRows(clean_labels, users)]
    /\ ret' = cluster_of_one(call'.X, data)
    /\ UNCHANGED <<s, N, data, labels_, core_distances_, users, clean_labels>>

NextReduce == RemoveUserDuplication \/ SynthesizeNoise

SpecReduce == InitReduce /\ [][NextReduce]_vars

\* remove_user_duplication has returned (and its labels are in clean_labels)
Enforced == call.op \in {"remove_user_duplication", "cluster_of_one"}

Obs == 1..Len(labels_)

\* the observations of user u that the input labels l
Group(l, u) == {i \in Obs : labels_[i] = l /\ users[i] = u}

\* C1: in the labeling remove_user_duplication returns, no user index
\* appears more than once among the observations bearing one label >= 0.
C1_UserOncePerCluster ==
    Enforced =>
        \A i \in 1..Len(clean_labels), j \in 1..Len(clean_labels) :
            (/\ i # j
             /\ clean_labels[i] >= 0
             /\ clean_labels[i] = clean_labels[j])
                => users[i] # users[j]

\* the input held a user twice in one cluster and the call has been made
C1_Witness ==
    /\ Enforced
    /\ \E l \in Labels, u \in UserIdx : l >= 0 /\ Cardinality(Group(l, u)) > 1

\* C2: for every label L >= 0 and user u with more than one observation
\* labelled L, exactly one of them keeps L: the one with the smallest core
\* distance, the first in input order among equals; the others get -1.
C2_KeepsSmallestCoreDistance ==
    Enforced =>
        \A l \in Labels, u \in UserIdx :
            (l >= 0 /\ Cardinality(Group(l, u)) > 1) =>
                \E keep \in Group(l, u) :
                    /\ \A i \in Group(l, u) :
                          \/ core_distances_[keep] < core_distances_[i]
                          \/ core_distances_[keep] = core_distances_[i] /\ keep <= i
                    /\ clean_labels[keep] = l
                    /\ \A i \in Group(l, u) \ {keep} : clean_labels[i] = -1

\* three observations of one user in one cluster, the smallest core
\* distance shared by the second and the third: the second is kept
C2_Witness ==
    /\ Enforced
    /\ Len(labels_) = 3
    /\ labels_[1] >= 0
    /\ Group(labels_[1], users[1]) = {1, 2, 3}
    /\ core_distances_[2] = core_distances_[3]
    /\ core_distances_[2] < core_distances_[1]
    /\ clean_labels = <<-1, labels_[1], -1>>

\* C3: the returned labeling has the input's length and differs from it
\* only by demotions: each output label is the input label or -1, a -1
\* stays -1, and an observation whose user has exactly one observation
\* under its label keeps its label.
C3_OnlyDemotions ==
    Enforced =>
        /\ Len(clean_labels) = Len(labels_)
        /\ \A i \in Obs :
              /\ clean_labels[i] \in {labels_[i], -1}
              /\ labels_[i] = -1 => clean_labels[i] = -1
              /\ Cardinality(Group(labels_[i], users[i])) = 1
                    => clean_labels[i] = labels_[i]

\* a cluster holding one user twice and another user once: one of the
\* pair is demoted, the other user's observation keeps its label
C3_Witness ==
    /\ Enforced
    /\ \E i \in Obs, j \in Obs, k \in Obs :
          /\ i # j
          /\ labels_[i] >= 0
          /\ labels_[j] = labels_[i]
          /\ labels_[k] = labels_[i]
          /\ users[i] = users[j]
          /\ users[k] # users[i]
          /\ core_distances_[k] > core_distances_[i]
          /\ clean_labels[j] = -1
          /\ clean_labels[k] = labels_[k]

\* the singleton records built from observation i's line record
SingletonsOf(i) ==
    {k \in 1..Len(ret.value) : ret.value[k].clusters_x = data[i].x}

\* C9: no observation is dropped: after remove_user_duplication and
\* cluster_of_one over the observations labelled -1, every observation is a
\* member of a cluster with label >= 0 or has exactly one singleton record,
\* never both and never neither; a labeling of all -1 is returned
\* unchanged and gives one singleton record per observation.
C9_NoObservationDropped ==
    /\ (Enforced /\ \A i \in Obs : labels_[i] = -1) => clean_labels = labels_
    /\ call.op = "cluster_of_one" =>
          /\ ret.status = "returned"
          /\ \A i \in Obs :
                \/ clean_labels[i] >= 0 /\ SingletonsOf(i) = {}
                \/ clean_labels[i] = -1 /\ Cardinality(SingletonsOf(i)) = 1
          /\ \A k \in 1..Len(ret.value) : \E i \in Obs : k \in SingletonsOf(i)
          /\ (\A i \in Obs : labels_[i] = -1) => Len(ret.value) = Len(labels_)

\* the pipeline has run on a subject where enforcement demoted an
\* observation, one stayed in its cluster and one was noise from the start
C9_Witness ==
    /\ call.op = "cluster_of_one"
    /\ ret.status = "returned"
    /\ \E i \in Obs, j \in Obs, k \in Obs :
          /\ labels_[i] >= 0 /\ clean_labels[i] = -1
          /\ clean_labels[j] >= 0
          /\ labels_[k] = -1
    /\ Len(ret.value) = 2

=============================================================================
